---- MODULE Spec2Model ----
(***************************************************************************)
(* Model of views.py: PostListCreateView (cached list of recent posts,     *)
(* create with cache invalidation) and LikePostView (like toggle).         *)
(* Every request runs in a worker slot; a handler is a sequence of steps,  *)
(* one per access to the shared persistent store or the shared cache, so   *)
(* that requests of different workers interleave between those accesses.   *)
(***************************************************************************)
EXTENDS Integers, Sequences, FiniteSets, TLC

\* ------------------------------------------------------------------ bounds

\* posts that may be created during a run
MaxCreates == 1
\* Like records that may be inserted during a run
MaxLikes == 2

\* ------------------------------------------------------- program constants

\* Post.objects.all()...[:20]
Limit == 20
\* cache.set(cache_key, posts, 300)
CacheTimeout == 300

\* --------------------------------------------------------------- inputs

\* worker slots serving requests concurrently
Procs == {"w1", "w2"}
Users == {"u1", "u2"}
Anonymous == "anon"
\* sizes of the Post table when the run starts (all owned by "u1")
InitPostCounts == {0, Limit}
\* post_id values of like requests: 0 never resolves, 1 is the first post
LikeTargets == {0, 1}
\* elapsed time between two steps, in seconds
TickSteps == {CacheTimeout - 1, CacheTimeout}

VARIABLES
    posts,      \* Post table, in creation order: Seq of [id, user]
    likes,      \* Like table: set of [id, user, post]
    nextLikeId, \* next primary key of the Like table
    cache,      \* the 'recent_posts' cache entry: [present, value, ttl]
    req,        \* per worker slot: the request it serves and its locals
    resp,       \* the response sent by the step just taken (NoResp: none)
    nCreated,   \* posts created in the run (bounded by MaxCreates)
    \* ---- history, read by no handler and updated only by the observers
    postAge,    \* seconds since creation of each post created in the run
    sinceSet,   \* seconds since the last cache.set (-1: none yet; CacheTimeout: that or more)
    unseen,     \* posts whose create completed and no list has started since
    superseded, \* posts for which the create of a later post has completed
    mon,        \* per slot: what was observed of the request it serves
    fin,        \* what was observed of the request whose response was just sent
    last,       \* per (user, post): outcome of the last toggle, if it ran alone
    odd         \* the (user, post) pairs with an odd number of toggles issued so far

prog == <<posts, likes, nextLikeId, cache, req, resp, nCreated>>
hist == <<postAge, sinceSet, unseen, superseded, mon, fin, last, odd>>
vars == <<prog, hist>>

\* ---------------------------------------------------------------- helpers

Min(a, b) == IF a < b THEN a ELSE b

RECURSIVE Reverse(_)
Reverse(s) == IF s = <<>> THEN <<>> ELSE Append(Reverse(Tail(s)), Head(s))

Ids(s) == {s[i].id : i \in 1..Len(s)}

\* ------------------------------------------------------------ the store

\* Post.objects.get(id=post_id): does a Post with this id exist
PostExists(table, post_id) == post_id \in Ids(table)

\* Default ordering of Post (models.py): most recently created first
DefaultOrdering(table) == Reverse(table)

\* prefetch_related('like_set'): the users liking post p
LikeSet(table, p) == {l.user : l \in {x \in table : x.post = p}}

\* Query without the [:20] slice
QueryUnsliced(postTable, likeTable) ==
    LET all == DefaultOrdering(postTable)
    IN  [i \in 1..Len(all) |-> [id |-> all[i].id, user |-> all[i].user,
                                like_set |-> LikeSet(likeTable, all[i].id)]]

\* Post.objects.all().select_related('user').prefetch_related(...)[:20], evaluated
Query(postTable, likeTable) ==
    LET all == DefaultOrdering(postTable)
        n   == Min(Len(all), Limit)
    IN  [i \in 1..n |-> [id |-> all[i].id, user |-> all[i].user,
                         like_set |-> LikeSet(likeTable, all[i].id)]]

\* Like rows of (user, post)
LikesOf(table, u, p) == {l \in table : l.user = u /\ l.post = p}

\* Like without the unique (user, post) constraint
Unconstrained(table, u, p) == FALSE

\* unique (user, post) constraint of Like (models.py): would the insert violate it
UniqueViolation(table, u, p) == LikesOf(table, u, p) # {}

\* ------------------------------------------------------------ the cache

NoEntry == [present |-> FALSE, value |-> <<>>, ttl |-> 0]

\* cache.get(cache_key): [some, val]; some = FALSE is Python's None
CacheGet(c) ==
    IF c.present /\ c.ttl > 0 THEN [some |-> TRUE, val |-> c.value]
                              ELSE [some |-> FALSE, val |-> <<>>]

\* cache.set with twice the timeout
CacheSetLonger(value) == [present |-> TRUE, value |-> value, ttl |-> 2 * CacheTimeout]

\* cache.set(cache_key, posts, 300)
CacheSet(value) == [present |-> TRUE, value |-> value, ttl |-> CacheTimeout]

\* cache.delete('recent_posts')
CacheDelete(c) == NoEntry

\* the entry after d seconds: evicted once its timeout has run out
CacheAfter(c, d) ==
    IF c.present /\ c.ttl > d THEN [c EXCEPT !.ttl = c.ttl - d] ELSE NoEntry

\* `if posts is None`: a cached empty sequence counts as a hit
IsNone(got) == ~got.some

\* a handler that never uses the cached value
AlwaysMiss(got) == TRUE

\* `if not posts`: None or an empty sequence
Falsy(got) == ~got.some \/ got.val = <<>>

\* ------------------------------------------------------------ permissions

\* PostListCreateView without permission_classes (AllowAny)
CreateOpenToAll(kind, user) ==
    CASE kind = "list"   -> TRUE
      [] kind = "create" -> TRUE
      [] kind = "like"   -> user # Anonymous

\* IsAuthenticatedOrReadOnly on PostListCreateView, IsAuthenticated on LikePostView
HasPermission(kind, user) ==
    CASE kind = "list"   -> TRUE
      [] kind = "create" -> user # Anonymous
      [] kind = "like"   -> user # Anonymous

\* ------------------------------------------------------------ requests

\* a worker slot: the request it serves, where it is in the handler, its locals
Idle == [kind |-> "none", pc |-> "idle", user |-> Anonymous, post_id |-> 0,
         posts |-> <<>>, queried |-> FALSE, like |-> 0]

\* the response sent by the step just taken, if it sent one
NoResp == [kind |-> "none", slot |-> "none", user |-> Anonymous, post_id |-> 0,
           status |-> 0, posts |-> <<>>, liked |-> FALSE, queried |-> FALSE]

Response(r, status) ==
    [NoResp EXCEPT !.kind = req[r].kind, !.slot = r, !.user = req[r].user,
                   !.post_id = req[r].post_id, !.status = status,
                   !.queried = req[r].queried]

FirstStep(kind) ==
    CASE kind = "list"   -> "get"
      [] kind = "create" -> "save"
      [] kind = "like"   -> "lookup"

\* of a list request: mustSee, old (taken when it starts), late (at cache.get);
\* of a like request: alone, existed, prev (taken when it starts)
NoMon == [mustSee |-> {}, old |-> {}, late |-> FALSE,
          alone |-> FALSE, existed |-> FALSE, prev |-> "none"]
Pairs == Users \X LikeTargets

Init ==
    /\ \E n \in InitPostCounts : posts = [i \in 1..n |-> [id |-> i, user |-> "u1"]]
    /\ likes = {}
    /\ nextLikeId = 1
    /\ cache = NoEntry
    /\ req = [r \in Procs |-> Idle]
    /\ resp = NoResp
    /\ nCreated = 0
    /\ postAge = <<>>
    /\ sinceSet = -1
    /\ unseen = {}
    /\ superseded = {}
    /\ mon = [r \in Procs |-> NoMon]
    /\ fin = NoMon
    /\ last = [pr \in Pairs |-> "none"]
    /\ odd = {}

\* The framework's initial(): a free worker takes the request and checks the
\* view's permission_classes; the handler starts, or the request is rejected
Dispatch(r, kind, user, post_id) ==
    /\ req[r].pc = "idle"
    /\ IF HasPermission(kind, user)
       THEN /\ req' = [req EXCEPT ![r] =
                   [Idle EXCEPT !.kind = kind, !.pc = FirstStep(kind), !.user = user,
                                !.post_id = post_id]]
            /\ resp' = NoResp
       ELSE /\ req' = req
            /\ resp' = [NoResp EXCEPT !.kind = kind, !.slot = r, !.user = user,
                                      !.post_id = post_id, !.status = 403]
    /\ UNCHANGED <<posts, likes, nextLikeId, cache, nCreated>>

\* get_queryset: posts = cache.get(cache_key); if not posts: ... else return posts
ListGet(r) ==
    /\ req[r].pc = "get"
    /\ LET got == CacheGet(cache) IN
       IF Falsy(got)
       THEN /\ req' = [req EXCEPT ![r].pc = "query"]
            /\ resp' = NoResp
       ELSE /\ req' = [req EXCEPT ![r] = Idle]
            /\ resp' = [Response(r, 200) EXCEPT !.posts = got.val]
    /\ UNCHANGED <<posts, likes, nextLikeId, cache, nCreated>>

\* get_queryset: the queryset is evaluated against the store
ListQuery(r) ==
    /\ req[r].pc = "query"
    /\ req' = [req EXCEPT ![r].pc = "set", ![r].posts = Query(posts, likes),
                          ![r].queried = TRUE]
    /\ resp' = NoResp
    /\ UNCHANGED <<posts, likes, nextLikeId, cache, nCreated>>

\* get_queryset: cache.set(cache_key, posts, 300); return posts
ListSet(r) ==
    /\ req[r].pc = "set"
    /\ cache' = CacheSet(req[r].posts)
    /\ req' = [req EXCEPT ![r] = Idle]
    /\ resp' = [Response(r, 200) EXCEPT !.posts = req[r].posts]
    /\ UNCHANGED <<posts, likes, nextLikeId, nCreated>>

\* perform_create with serializer.save() and no user
CreateSaveUnattributed(r) ==
    /\ req[r].pc = "save"
    /\ nCreated < MaxCreates
    /\ LET id == Len(posts) + 1 IN
       /\ posts' = Append(posts, [id |-> id, user |-> Anonymous])
       /\ req' = [req EXCEPT ![r].pc = "invalidate", ![r].post_id = id]
    /\ resp' = NoResp
    /\ nCreated' = nCreated + 1
    /\ UNCHANGED <<likes, nextLikeId, cache>>

\* perform_create: serializer.save(user=self.request.user) succeeds
CreateSave(r) ==
    /\ req[r].pc = "save"
    /\ nCreated < MaxCreates
    /\ LET id == Len(posts) + 1 IN
       /\ posts' = Append(posts, [id |-> id, user |-> req[r].user])
       /\ req' = [req EXCEPT ![r].pc = "invalidate", ![r].post_id = id]
    /\ resp' = NoResp
    /\ nCreated' = nCreated + 1
    /\ UNCHANGED <<likes, nextLikeId, cache>>

\* perform_create with the invalidation in a finally: block
CreateSaveFailInvalidating(r) ==
    /\ req[r].pc = "save"
    /\ req' = [req EXCEPT ![r] = Idle]
    /\ resp' = Response(r, 500)
    /\ cache' = CacheDelete(cache)
    /\ UNCHANGED <<posts, likes, nextLikeId, nCreated>>

\* perform_create: serializer.save raises; the exception leaves the handler
CreateSaveFail(r) ==
    /\ req[r].pc = "save"
    /\ req' = [req EXCEPT ![r] = Idle]
    /\ resp' = Response(r, 500)
    /\ UNCHANGED <<posts, likes, nextLikeId, cache, nCreated>>

\* perform_create without the cache.delete
CreateDeleteSkipped(r) ==
    /\ req[r].pc = "invalidate"
    /\ req' = [req EXCEPT ![r] = Idle]
    /\ resp' = Response(r, 201)
    /\ UNCHANGED <<posts, likes, nextLikeId, cache, nCreated>>

\* perform_create: cache.delete('recent_posts')
CreateDelete(r) ==
    /\ req[r].pc = "invalidate"
    /\ cache' = CacheDelete(cache)
    /\ req' = [req EXCEPT ![r] = Idle]
    /\ resp' = Response(r, 201)
    /\ UNCHANGED <<posts, likes, nextLikeId, nCreated>>

\* post: post = Post.objects.get(id=post_id); DoesNotExist is not caught
LikeLookup(r) ==
    /\ req[r].pc = "lookup"
    /\ IF PostExists(posts, req[r].post_id)
       THEN /\ req' = [req EXCEPT ![r].pc = "goc_get"]
            /\ resp' = NoResp
       ELSE /\ req' = [req EXCEPT ![r] = Idle]
            /\ resp' = Response(r, 500)
    /\ UNCHANGED <<posts, likes, nextLikeId, cache, nCreated>>

\* get_or_create: self.get(user=..., post=...)
GocGet(r) ==
    /\ req[r].pc = "goc_get"
    /\ LET found == LikesOf(likes, req[r].user, req[r].post_id) IN
       IF found # {}
       THEN \E l \in found : req' = [req EXCEPT ![r].pc = "delete", ![r].like = l.id]
       ELSE req' = [req EXCEPT ![r].pc = "goc_create"]
    /\ resp' = NoResp
    /\ UNCHANGED <<posts, likes, nextLikeId, cache, nCreated>>

\* post deleting 'recent_posts' after a Like is created
GocCreateInvalidating(r) ==
    /\ req[r].pc = "goc_create"
    /\ IF UniqueViolation(likes, req[r].user, req[r].post_id)
       THEN /\ req' = [req EXCEPT ![r].pc = "goc_retry"]
            /\ resp' = NoResp
            /\ UNCHANGED <<likes, nextLikeId, cache>>
       ELSE /\ nextLikeId <= MaxLikes
            /\ likes' = likes \cup {[id |-> nextLikeId, user |-> req[r].user,
                                     post |-> req[r].post_id]}
            /\ nextLikeId' = nextLikeId + 1
            /\ cache' = CacheDelete(cache)
            /\ req' = [req EXCEPT ![r] = Idle]
            /\ resp' = [Response(r, 200) EXCEPT !.liked = TRUE]
    /\ UNCHANGED <<posts, nCreated>>

\* post answering {'liked': False} on both branches
GocCreateAnswersFalse(r) ==
    /\ req[r].pc = "goc_create"
    /\ IF UniqueViolation(likes, req[r].user, req[r].post_id)
       THEN /\ req' = [req EXCEPT ![r].pc = "goc_retry"]
            /\ resp' = NoResp
            /\ UNCHANGED <<likes, nextLikeId>>
       ELSE /\ nextLikeId <= MaxLikes
            /\ likes' = likes \cup {[id |-> nextLikeId, user |-> req[r].user,
                                     post |-> req[r].post_id]}
            /\ nextLikeId' = nextLikeId + 1
            /\ req' = [req EXCEPT ![r] = Idle]
            /\ resp' = [Response(r, 200) EXCEPT !.liked = FALSE]
    /\ UNCHANGED <<posts, cache, nCreated>>

\* get_or_create: self.create(user=..., post=...); created, so
\* return Response({'liked': True})
GocCreate(r) ==
    /\ req[r].pc = "goc_create"
    /\ IF UniqueViolation(likes, req[r].user, req[r].post_id)
       THEN /\ req' = [req EXCEPT ![r].pc = "goc_retry"]
            /\ resp' = NoResp
            /\ UNCHANGED <<likes, nextLikeId>>
       ELSE /\ nextLikeId <= MaxLikes
            /\ likes' = likes \cup {[id |-> nextLikeId, user |-> req[r].user,
                                     post |-> req[r].post_id]}
            /\ nextLikeId' = nextLikeId + 1
            /\ req' = [req EXCEPT ![r] = Idle]
            /\ resp' = [Response(r, 200) EXCEPT !.liked = TRUE]
    /\ UNCHANGED <<posts, cache, nCreated>>

\* get_or_create after IntegrityError: self.get(...) again, else the error is raised
GocRetry(r) ==
    /\ req[r].pc = "goc_retry"
    /\ LET found == LikesOf(likes, req[r].user, req[r].post_id) IN
       IF found # {}
       THEN /\ \E l \in found : req' = [req EXCEPT ![r].pc = "delete", ![r].like = l.id]
            /\ resp' = NoResp
       ELSE /\ req' = [req EXCEPT ![r] = Idle]
            /\ resp' = Response(r, 500)
    /\ UNCHANGED <<posts, likes, nextLikeId, cache, nCreated>>

\* post deleting every Like of the user: Like.objects.filter(user=...).delete()
LikeDeleteAllOfUser(r) ==
    /\ req[r].pc = "delete"
    /\ likes' = {l \in likes : l.user # req[r].user}
    /\ req' = [req EXCEPT ![r] = Idle]
    /\ resp' = [Response(r, 200) EXCEPT !.liked = FALSE]
    /\ UNCHANGED <<posts, nextLikeId, cache, nCreated>>

\* post without like.delete()
LikeDeleteSkipped(r) ==
    /\ req[r].pc = "delete"
    /\ req' = [req EXCEPT ![r] = Idle]
    /\ resp' = [Response(r, 200) EXCEPT !.liked = FALSE]
    /\ UNCHANGED <<posts, likes, nextLikeId, cache, nCreated>>

\* post: if not created: like.delete(); return Response({'liked': False})
LikeDelete(r) ==
    /\ req[r].pc = "delete"
    /\ likes' = {l \in likes : l.id # req[r].like}
    /\ req' = [req EXCEPT ![r] = Idle]
    /\ resp' = [Response(r, 200) EXCEPT !.liked = FALSE]
    /\ UNCHANGED <<posts, nextLikeId, cache, nCreated>>

\* d seconds pass
Tick(d) ==
    /\ cache' = CacheAfter(cache, d)
    /\ resp' = NoResp
    /\ UNCHANGED <<posts, likes, nextLikeId, req, nCreated>>

\* ------------------------------------------------------ the whole program
\* All three kinds of request on the two workers. Posts are created by "u2"
\* (the initial ones belong to "u1") and liked by "u1"; CacheSpec and LikeSpec
\* below draw the users of creates and of likes from all of Users.

Next ==
    \/ \E r \in Procs, u \in {"u1", Anonymous} :
          Dispatch(r, "list", u, 0) /\ UNCHANGED hist
    \/ \E r \in Procs, u \in {"u2", Anonymous} :
          Dispatch(r, "create", u, 0) /\ UNCHANGED hist
    \/ \E r \in Procs, u \in {"u1", Anonymous}, p \in LikeTargets :
          Dispatch(r, "like", u, p) /\ UNCHANGED hist
    \/ \E r \in Procs : ListGet(r) /\ UNCHANGED hist
    \/ \E r \in Procs : ListQuery(r) /\ UNCHANGED hist
    \/ \E r \in Procs : ListSet(r) /\ UNCHANGED hist
    \/ \E r \in Procs : CreateSave(r) /\ UNCHANGED hist
    \/ \E r \in Procs : CreateSaveFail(r) /\ UNCHANGED hist
    \/ \E r \in Procs : CreateDelete(r) /\ UNCHANGED hist
    \/ \E r \in Procs : LikeLookup(r) /\ UNCHANGED hist
    \/ \E r \in Procs : GocGet(r) /\ UNCHANGED hist
    \/ \E r \in Procs : GocCreate(r) /\ UNCHANGED hist
    \/ \E r \in Procs : GocRetry(r) /\ UNCHANGED hist
    \/ \E r \in Procs : LikeDelete(r) /\ UNCHANGED hist
    \/ \E d \in TickSteps : Tick(d) /\ UNCHANGED hist

Spec == Init /\ [][Next]_vars

\* ------------------------------------------- list and create, with history
\* The observers record when requests start and complete and how much time
\* has passed; the handlers are the ones above and read none of it.

\* the step of slot r just taken: when it sent the response, what was observed
\* of the request moves to fin
Finish(r, m) ==
    IF resp'.kind # "none" /\ req'[r].pc = "idle"
    THEN mon' = [m EXCEPT ![r] = NoMon] /\ fin' = m[r]
    ELSE mon' = m /\ fin' = NoMon

ObsListStart(r) ==
    /\ mon' = [mon EXCEPT ![r] =
          [NoMon EXCEPT
             !.mustSee = unseen,
             !.old = {p \in DOMAIN postAge : postAge[p] >= CacheTimeout}
                        \cup superseded]]
    /\ fin' = NoMon
    /\ unseen' = {}
    /\ UNCHANGED <<postAge, sinceSet, superseded, last, odd>>

ObsListGet(r) ==
    /\ Finish(r, [mon EXCEPT ![r].late = (sinceSet >= CacheTimeout)])
    /\ UNCHANGED <<postAge, sinceSet, unseen, superseded, last, odd>>

ObsStep(r) ==
    /\ Finish(r, mon)
    /\ UNCHANGED <<postAge, sinceSet, unseen, superseded, last, odd>>

ObsListSet(r) ==
    /\ Finish(r, mon)
    /\ sinceSet' = 0
    /\ UNCHANGED <<postAge, unseen, superseded, last, odd>>

ObsCreateSave(r) ==
    /\ Finish(r, mon)
    /\ postAge' = [p \in DOMAIN postAge \cup {Len(posts')} |->
                      IF p \in DOMAIN postAge THEN postAge[p] ELSE 0]
    /\ UNCHANGED <<sinceSet, unseen, superseded, last, odd>>

ObsCreateDone(r) ==
    /\ Finish(r, mon)
    /\ unseen' = unseen \cup {req[r].post_id}
    /\ superseded' = superseded \cup {p \in DOMAIN postAge : p < req[r].post_id}
    /\ UNCHANGED <<postAge, sinceSet, last, odd>>

ObsTick(d) ==
    /\ postAge' = [p \in DOMAIN postAge |-> Min(postAge[p] + d, CacheTimeout)]
    /\ sinceSet' = IF sinceSet < 0 THEN sinceSet ELSE Min(sinceSet + d, CacheTimeout)
    /\ fin' = NoMon
    /\ UNCHANGED <<unseen, superseded, mon, last, odd>>

CacheNext ==
    \/ \E r \in Procs, u \in {"u1", Anonymous} :
          Dispatch(r, "list", u, 0) /\ ObsListStart(r)
    \/ \E r \in Procs, u \in Users \cup {Anonymous} :
          Dispatch(r, "create", u, 0) /\ ObsStep(r)
    \/ \E r \in Procs : ListGet(r) /\ ObsListGet(r)
    \/ \E r \in Procs : ListQuery(r) /\ ObsStep(r)
    \/ \E r \in Procs : ListSet(r) /\ ObsListSet(r)
    \/ \E r \in Procs : CreateSave(r) /\ ObsCreateSave(r)
    \/ \E r \in Procs : CreateSaveFail(r) /\ ObsStep(r)
    \/ \E r \in Procs : CreateDelete(r) /\ ObsCreateDone(r)
    \/ \E d \in TickSteps : Tick(d) /\ ObsTick(d)

CacheSpec == Init /\ [][CacheNext]_vars

\* -------------------------------------------------- like toggles, with history

\* like requests of (u, p) that slot r finds running when it starts
Running(r, u, p) ==
    {q \in Procs \ {r} : req[q].kind = "like" /\ req[q].user = u /\ req[q].post_id = p}

ObsLikeStart(r, u, p) ==
    /\ IF HasPermission("like", u)
       THEN /\ mon' = [q \in Procs |->
                  IF q = r THEN [NoMon EXCEPT
                                   !.alone = (Running(r, u, p) = {}),
                                   !.existed = (LikesOf(likes, u, p) # {}),
                                   !.prev = IF Running(r, u, p) = {}
                                            THEN last[<<u, p>>] ELSE "none"]
                  ELSE IF q \in Running(r, u, p) THEN [mon[q] EXCEPT !.alone = FALSE]
                  ELSE mon[q]]
            /\ last' = [last EXCEPT ![<<u, p>>] = "none"]
       ELSE UNCHANGED <<mon, last>>
    /\ fin' = NoMon
    /\ UNCHANGED <<postAge, sinceSet, unseen, superseded, odd>>

\* a step of the like request of slot r: when it sent {'liked': ...} and the
\* request ran alone from no Like record, last keeps the outcome
ObsLikeStep(r) ==
    /\ Finish(r, mon)
    /\ last' = IF resp'.kind = "like" /\ resp'.status = 200
                  /\ mon[r].alone /\ ~mon[r].existed
               THEN [last EXCEPT ![<<req[r].user, req[r].post_id>>] =
                        IF resp'.liked THEN "liked" ELSE "unliked"]
               ELSE last
    /\ UNCHANGED <<postAge, sinceSet, unseen, superseded, odd>>

LikeNext ==
    \/ \E r \in Procs, u \in Users \cup {Anonymous}, p \in LikeTargets :
          Dispatch(r, "like", u, p) /\ ObsLikeStart(r, u, p)
    \/ \E r \in Procs : LikeLookup(r) /\ ObsLikeStep(r)
    \/ \E r \in Procs : GocGet(r) /\ ObsLikeStep(r)
    \/ \E r \in Procs : GocCreate(r) /\ ObsLikeStep(r)
    \/ \E r \in Procs : GocRetry(r) /\ ObsLikeStep(r)
    \/ \E r \in Procs : LikeDelete(r) /\ ObsLikeStep(r)

LikeSpec == Init /\ [][LikeNext]_vars

\* ------------------------------------------- like toggles over several posts
\* Toggles of every user on the first two posts; of the history only the
\* parity of the toggles issued on each pair is kept.

\* post_id values of these like requests
TogglePosts == {1, 2}

\* a like request of (u, p) is issued: it will reach get_or_create when the
\* caller is authenticated and the Post exists
ObsToggleStart(u, p) ==
    /\ odd' = IF HasPermission("like", u) /\ PostExists(posts, p)
              THEN (odd \ {<<u, p>>}) \cup ({<<u, p>>} \ odd)
              ELSE odd
    /\ UNCHANGED <<postAge, sinceSet, unseen, superseded, mon, fin, last>>

ToggleNext ==
    \/ \E r \in Procs, u \in Users \cup {Anonymous}, p \in TogglePosts :
          Dispatch(r, "like", u, p) /\ ObsToggleStart(u, p)
    \/ \E r \in Procs : LikeLookup(r) /\ UNCHANGED hist
    \/ \E r \in Procs : GocGet(r) /\ UNCHANGED hist
    \/ \E r \in Procs : GocCreate(r) /\ UNCHANGED hist
    \/ \E r \in Procs : GocRetry(r) /\ UNCHANGED hist
    \/ \E r \in Procs : LikeDelete(r) /\ UNCHANGED hist

ToggleSpec == Init /\ [][ToggleNext]_vars

\* ------------------------------------------ list and create, one at a time
\* A request is taken only when no other is in progress, so the steps of two
\* requests never interleave; time passes at any point.

\* no request is in progress
AllIdle == \A q \in Procs : req[q].pc = "idle"

SeqNext ==
    \/ \E r \in Procs, u \in {"u1", Anonymous} :
          AllIdle /\ Dispatch(r, "list", u, 0) /\ UNCHANGED hist
    \/ \E r \in Procs, u \in Users \cup {Anonymous} :
          AllIdle /\ Dispatch(r, "create", u, 0) /\ UNCHANGED hist
    \/ \E r \in Procs : ListGet(r) /\ UNCHANGED hist
    \/ \E r \in Procs : ListQuery(r) /\ UNCHANGED hist
    \/ \E r \in Procs : ListSet(r) /\ UNCHANGED hist
    \/ \E r \in Procs : CreateSave(r) /\ UNCHANGED hist
    \/ \E r \in Procs : CreateSaveFail(r) /\ UNCHANGED hist
    \/ \E r \in Procs : CreateDelete(r) /\ UNCHANGED hist
    \/ \E d \in TickSteps : Tick(d) /\ UNCHANGED hist

SeqSpec == Init /\ [][SeqNext]_vars

\* ================================================================ claims

\* the 20 most recent posts of the store, as a list evaluated now would see them
Recent == Ids(Query(posts, likes))

ListSent == resp.kind = "list" /\ resp.status = 200

\* C1 (cache coherence): the first list request that starts after the create
\* of a post P has completed returns a sequence containing P, when P is among
\* the 20 most recent posts of the store.
C1_FirstListSeesCreatedPost ==
    ListSent => \A p \in fin.mustSee : p \in Recent => p \in Ids(resp.posts)

\* C7 (bounded staleness): a post among the 20 most recent that a list request
\* omits was created less than 300 seconds before that request started, and no
\* create of a later post had completed its invalidation by then.
C7_StalenessBounded ==
    ListSent => \A p \in Recent \ Ids(resp.posts) : p \notin fin.old

\* C2 (uniqueness): in every reachable state the store holds at most one Like
\* record for each (user, post) pair.
C2_AtMostOneLikePerPair ==
    \A u \in Users, p \in LikeTargets : Cardinality(LikesOf(likes, u, p)) <= 1

\* two like requests of the same pair are running and the insert of one has
\* hit the constraint
C2_Witness ==
    \E r \in Procs : req[r].pc = "goc_retry" /\ Running(r, req[r].user, req[r].post_id) # {}

LikeSent == resp.kind = "like" /\ resp.status = 200

\* C3 (toggle over pairs): a like request that ran with no other like request
\* of its pair, started with no Like record of the pair, answers liked=true;
\* the next like request of the pair, run the same way, answers liked=false and
\* leaves no Like record of the pair.
C3_ToggleTwice ==
    LikeSent /\ fin.alone =>
        /\ ~fin.existed => resp.liked
        /\ fin.prev # "none" =>
              /\ fin.prev = "liked"
              /\ ~resp.liked
              /\ LikesOf(likes, resp.user, resp.post_id) = {}

C3_Witness ==
    /\ LikeSent /\ fin.alone /\ fin.prev = "liked" /\ ~resp.liked
    /\ LikesOf(likes, resp.user, resp.post_id) = {}

\* C4 (not found): a like request of an authenticated user on a post_id that
\* resolves to no Post is answered with status 404.
C4_MissingPostIs404 ==
    resp.kind = "like" /\ resp.user # Anonymous /\ ~PostExists(posts, resp.post_id)
        => resp.status = 404

\* C5 (bounded list size): the cached value has at most 20 posts and every
\* list response has at most 20 posts.
C5_AtMostLimitPosts ==
    /\ Len(cache.value) <= Limit
    /\ resp.kind = "list" => Len(resp.posts) <= Limit

\* the store holds more than 20 posts, and a list request that queried it
\* returns the 20 most recent ones
C5_Witness ==
    /\ Len(posts) > Limit
    /\ ListSent /\ resp.queried
    /\ Len(resp.posts) = Limit /\ Len(posts) \in Ids(resp.posts)
    /\ Len(cache.value) = Limit

\* C6 (cache TTL): a list request whose cache.get comes 300 seconds or more
\* after the last cache.set finds no value, queries the store and sets the
\* cache to what it returns.
C6_LateListRequeries ==
    ListSent /\ fin.late =>
        /\ resp.queried
        /\ cache.present /\ cache.value = resp.posts

C6_Witness ==
    ListSent /\ fin.late /\ resp.queried /\ resp.posts # <<>>

\* C8 (create failure): when serializer.save fails, the request ends with no
\* Post added and the cache entry as it was.
C8_FailedCreateChangesNothing ==
    [][\A r \in Procs :
          req[r].pc = "save" /\ req'[r].pc = "idle"
              => /\ resp'.kind = "create" /\ resp'.status = 500
                 /\ cache' = cache
                 /\ posts' = posts]_vars

\* a create has failed while the cache held an entry
C8_Witness ==
    resp.kind = "create" /\ resp.status = 500 /\ cache.present /\ cache.value # <<>>

\* the cache holds a non-empty value
Warm == cache.present /\ cache.ttl > 0 /\ cache.value # <<>>

\* C9 (warm-cache read): with a non-empty cached value, the cache.get step of a
\* list request answers with exactly that value, without a store query, and
\* leaves the cache entry and the store unchanged.
C9_WarmReadServedFromCache ==
    [][\A r \in Procs :
          req[r].pc = "get" /\ req'[r] # req[r] /\ Warm
              => /\ req'[r].pc = "idle"
                 /\ resp'.kind = "list" /\ resp'.slot = r /\ resp'.status = 200
                 /\ resp'.posts = cache.value
                 /\ ~resp'.queried
                 /\ cache' = cache
                 /\ posts' = posts /\ likes' = likes]_vars

\* a list was answered from the cache although the store has moved on
C9_Witness ==
    /\ ListSent /\ ~resp.queried /\ resp.posts # <<>>
    /\ resp.posts = cache.value
    /\ resp.posts # Query(posts, likes)

\* C10 (authentication gate): no handler runs a create or a like of an
\* unauthenticated caller: the request is answered 403 and Post records, Like
\* records and the cache entry stay as they are; a list request is never
\* rejected, whoever sends it.
C10_AuthenticationGate ==
    /\ [](/\ \A r \in Procs :
               req[r].kind \in {"create", "like"} => req[r].user # Anonymous
          /\ resp.kind \in {"create", "like"} /\ resp.user = Anonymous
               => resp.status = 403
          /\ resp.kind = "list" => resp.status = 200)
    /\ [][resp'.status = 403
            => posts' = posts /\ likes' = likes /\ cache' = cache /\ req' = req]_vars

\* an unauthenticated create is rejected while the cache holds an entry, a Like
\* exists and the list of an unauthenticated caller is being served
C10_Witness ==
    /\ resp.kind = "create" /\ resp.user = Anonymous /\ resp.status = 403
    /\ cache.present /\ likes # {}
    /\ \E r \in Procs : req[r].kind = "list" /\ req[r].user = Anonymous

\* like requests of (u, p) in progress
InFlight(u, p) ==
    {r \in Procs : req[r].kind = "like" /\ req[r].user = u /\ req[r].post_id = p}

\* C11 (toggle parity under concurrency): once every toggle issued on a pair
\* (u, p) has completed, a Like record of the pair exists if and only if the
\* number of toggles issued on it is odd (no record exists initially),
\* whatever the interleaving of their storage steps.
C11_ToggleParity ==
    \A u \in Users, p \in TogglePosts :
        PostExists(posts, p) /\ InFlight(u, p) = {}
            => (LikesOf(likes, u, p) # {} <=> <<u, p>> \in odd)

\* C12 (response matches state): a like request that ran with no other like
\* request of its pair answers liked=true exactly when a Like record of the
\* pair exists as the response is sent, and exactly when no record of the pair
\* existed as the request started.
C12_ResponseMatchesState ==
    LikeSent /\ fin.alone =>
        /\ resp.liked <=> LikesOf(likes, resp.user, resp.post_id) # {}
        /\ resp.liked <=> ~fin.existed

\* a toggle that found its record answers liked=false while the toggle of
\* another user is in progress on the other worker
C12_Witness ==
    /\ LikeSent /\ fin.alone /\ fin.existed /\ ~resp.liked
    /\ LikesOf(likes, resp.user, resp.post_id) = {}
    /\ \E r \in Procs : req[r].kind = "like" /\ req[r].user # resp.user
                          /\ req[r].pc \in {"goc_get", "goc_create", "delete"}

\* Like records of the pairs other than (u, p)
OtherLikes(table, u, p) == {l \in table : ~(l.user = u /\ l.post = p)}

\* C16 (toggle frame): every step of a like request of (u, p) leaves the Like
\* records of all other pairs and the Post table as they are.
C16_ToggleFrame ==
    [][\A r \in Procs :
          req[r].kind = "like" /\ req'[r] # req[r]
              => /\ OtherLikes(likes', req[r].user, req[r].post_id)
                      = OtherLikes(likes, req[r].user, req[r].post_id)
                 /\ posts' = posts]_vars

\* a toggle has deleted its record while the same user likes another post and
\* another user's toggle is in progress
C16_Witness ==
    /\ LikeSent /\ ~resp.liked
    /\ LikesOf(likes, resp.user, resp.post_id) = {}
    /\ \E l \in likes : l.user = resp.user /\ l.post # resp.post_id
    /\ \E r \in Procs : req[r].kind = "like" /\ req[r].user # resp.user

\* C13 (empty result is never a cache hit): while the store holds no posts,
\* the cache.get step of a list request goes on to the store query whatever
\* the cache holds, and every list response sent then comes from a store query
\* and is what the cache was just set to; an empty sequence is never returned
\* without a store query.
C13_EmptyIsNeverAHit ==
    /\ [][\A r \in Procs :
            req[r].pc = "get" /\ req'[r] # req[r] /\ posts = <<>>
                => req'[r].pc = "query" /\ resp' = NoResp]_vars
    /\ [](ListSent /\ (posts = <<>> \/ resp.posts = <<>>)
            => resp.queried /\ cache = CacheSet(resp.posts))

\* the cache.get of a list request has just found the empty sequence a
\* previous list request stored, not yet aged, and goes on to the store query
C13_Witness ==
    /\ posts = <<>>
    /\ resp = NoResp
    /\ cache = CacheSet(<<>>)
    /\ \E r \in Procs : /\ req[r].kind = "list" /\ req[r].pc = "query"
                        /\ \A q \in Procs \ {r} : req[q].pc = "idle"

\* C14 (invalidation triggers): the cache entry disappears only in the
\* cache.delete of a successful create or when its timeout runs out; no step
\* of a like request and no change of the Like table changes the cache entry;
\* a list answered from the cache returns the cached value as it was stored.
C14_InvalidationTriggers ==
    /\ [][/\ cache.present /\ ~cache'.present
              => \/ resp'.kind = "create" /\ resp'.status = 201
                 \/ /\ req' = req /\ resp' = NoResp
                    /\ \E d \in TickSteps : cache.ttl <= d
          /\ \A r \in Procs :
                req[r].kind = "like" /\ req'[r] # req[r] => cache' = cache
          /\ likes' # likes => cache' = cache]_vars
    /\ [](ListSent /\ ~resp.queried => resp.posts = cache.value)

\* a list is answered from the cache with the like sets of the time the cache
\* was populated, which a toggle has changed in the store since
C14_Witness ==
    /\ ListSent /\ ~resp.queried /\ resp.posts = cache.value
    /\ Ids(resp.posts) = Recent
    /\ \E i \in 1..Len(resp.posts) :
          resp.posts[i].like_set # LikeSet(likes, resp.posts[i].id)

\* C17 (post attribution and permanence): the Post table changes only in the
\* save step of a create request of an authenticated user, which appends
\* exactly one Post owned by that user and leaves the others as they are; the
\* Post of a create answered 201 is in the table, owned by the caller.
C17_AttributionAndPermanence ==
    /\ [][/\ posts' # posts
              => \E r \in Procs :
                    /\ req[r].kind = "create" /\ req[r].pc = "save"
                    /\ req'[r].pc = "invalidate"
                    /\ req[r].user # Anonymous
                    /\ Len(posts') = Len(posts) + 1
                    /\ SubSeq(posts', 1, Len(posts)) = posts
                    /\ posts'[Len(posts')].user = req[r].user
          /\ \A r \in Procs :
                req[r].pc = "save" /\ req'[r].pc = "invalidate"
                    => Len(posts') = Len(posts) + 1]_vars
    /\ [](resp.kind = "create" /\ resp.status = 201
            => /\ PostExists(posts, resp.post_id)
               /\ posts[resp.post_id].user = resp.user)

\* a create of "u2" is answered 201 with its Post in a table whose other
\* Posts belong to "u1", while a Like exists
C17_Witness ==
    /\ resp.kind = "create" /\ resp.status = 201 /\ resp.user = "u2"
    /\ Len(posts) = Limit + 1
    /\ posts[resp.post_id].user = "u2"
    /\ \A i \in 1..Limit : posts[i] = [id |-> i, user |-> "u1"]
    /\ likes # {}

\* the ids of a sequence of posts, in order
IdSeq(s) == [i \in 1..Len(s) |-> s[i].id]

\* the cached value is non-empty and its posts are not the first 20 of the store
Disagree ==
    /\ cache.present /\ cache.value # <<>>
    /\ IdSeq(cache.value) # IdSeq(Query(posts, likes))

\* C15 (sequential cache/store agreement) as stated: with list and create
\* requests run one at a time, in every reachable state where the cache holds
\* a non-empty value, its posts are exactly the first 20 posts of the store in
\* the store's ordering.
C15_CacheAgreesWithStore == ~Disagree

\* C15 as amended: the same, in every reachable state except those of a
\* create request between its serializer.save and its cache.delete.
C15_CacheAgreesOutsideCreate ==
    (\A r \in Procs : req[r].pc # "invalidate") => ~Disagree

\* after a create, a list has populated the cache again with the new post
\* first, and no request is in progress
C15_Witness ==
    /\ AllIdle
    /\ Len(posts) = Limit + 1
    /\ cache.present /\ Len(cache.value) = Limit
    /\ cache.value[1].id = Limit + 1
    /\ IdSeq(cache.value) = IdSeq(Query(posts, likes))

====
